---- MODULE Spec2Model ----
(***************************************************************************)
(* Model of the NodeClaim liveness reconciler                              *)
(* (pkg/controllers/nodeclaim/lifecycle/liveness.go).                      *)
(*                                                                         *)
(* Time is counted in minutes.  One Reconcile invocation is split at its   *)
(* calls to the API server (Delete, Get, Status().Patch), which is where   *)
(* other reconciles, other writers of the NodePool and the clock can       *)
(* interleave.  The NodeClaim handed to Reconcile is a snapshot that the   *)
(* invocation never re-reads, so the writers of the claim's conditions     *)
(* act between invocations only.                                           *)
(***************************************************************************)
EXTENDS Integers, Sequences, FiniteSets, TLC

VARIABLES now, exists, poolLabel, launched, registered, nodePool,
          pc, stored, startedAt, result, calls, NodeClaimsDisruptedTotal

vars == <<now, exists, poolLabel, launched, registered, nodePool,
          pc, stored, startedAt, result, calls, NodeClaimsDisruptedTotal>>

claimVars == <<exists, poolLabel, launched, registered>>

\* ---------------------------------------------------------------- bounds
MaxTime == 20
TickMinutes == 5
MaxResourceVersion == 3
MinuteStep == 1

\* ------------------------------------------------------------- constants
registrationTimeout == 15
launchTimeout == 5
registrationTimeoutReason == "registration_timeout"
launchTimeoutReason == "launch_timeout"

RegistrationTimeout == [duration |-> registrationTimeout, reason |-> registrationTimeoutReason]
LaunchTimeout == [duration |-> launchTimeout, reason |-> launchTimeoutReason]

\* ----------------------------------------------------------------- types
AllClaims == {"c1", "c2"}
Claims == {"c1"}
ConcClaims == {"c1", "c2"}

NodePoolName == "default"
PoolLabels == {"", NodePoolName}

CapacityType(c) == IF c = "c1" THEN "spot" ELSE "on-demand"

\* A status condition of a NodeClaim; nil is the absent condition.
nil == [status |-> "Absent", ltt |-> 0, reason |-> "", message |-> ""]

IsTrue(cond) == cond # nil /\ cond.status = "True"

\* Variant: the condition is tested for True instead of Unknown.
IsUnknownTestsTrue(cond) == cond.status = "True"

\* Variant: every condition that is not True counts as Unknown.
IsUnknownOrFalse(cond) == cond.status # "True"

\* Variant: the condition is written without looking at what was read.
IsUnknownAlways(cond) == TRUE

IsUnknown(cond) == cond.status = "Unknown"

\* The reasons and messages the launch and registration controllers write.
ConditionText(s) ==
    CASE s = "True" -> [reason |-> "Ok", message |-> ""]
      [] s = "False" -> [reason |-> "LaunchFailed", message |-> "creating instance failed"]
      [] OTHER -> [reason |-> "AwaitingReconciliation", message |-> "object is awaiting reconciliation"]

NewCondition(s, t) ==
    [status |-> s, ltt |-> t,
     reason |-> ConditionText(s).reason, message |-> ConditionText(s).message]

\* Variant: the difference is taken the wrong way round.
SinceReversed(t) == t - now

\* l.clock.Since(t)
Since(t) == now - t

\* reconcile.Result together with the returned error ("nil" is no error).
Result(rq, after, err) == [Requeue |-> rq, RequeueAfter |-> after, err |-> err]

NoResult == Result(FALSE, 0, "none")

\* Variant: not-found is not swallowed.
IgnoreNotFoundKeeps(err) == err

\* client.IgnoreNotFound(err)
IgnoreNotFound(err) == IF err = "NotFound" THEN "nil" ELSE err

\* errors.IsConflict(err)
IsConflict(err) == err = "Conflict"

\* One call of an invocation to a collaborator: the operation, its argument
\* (the timeout reason of a delete or of a counter increment, the name of
\* the NodePool), the condition status read or written, and the error.
Call(op, arg, val, err) == [op |-> op, arg |-> arg, val |-> val, err |-> err]

MetricKey(reason, c) == <<reason, poolLabel[c], CapacityType(c)>>

MetricKeys == {launchTimeoutReason, registrationTimeoutReason} \X PoolLabels
                 \X {CapacityType(c) : c \in AllClaims}

\* ------------------------------------------------------------------ Init
InitCommon ==
    /\ exists = [c \in AllClaims |-> TRUE]
    /\ \E s \in {"Unknown", "True", "False"} :
          nodePool = [exists |-> TRUE, status |-> s, reason |-> "Init",
                      message |-> "", resourceVersion |-> 1]
    /\ pc = [c \in AllClaims |-> "idle"]
    /\ stored = [c \in AllClaims |-> 0]
    /\ startedAt = [c \in AllClaims |-> 0]
    /\ result = [c \in AllClaims |-> NoResult]
    /\ calls = [c \in AllClaims |-> <<>>]
    /\ NodeClaimsDisruptedTotal = [k \in MetricKeys |-> 0]

\* One claim is reconciled; its conditions are written by the launch and
\* registration controllers as time passes.
Init ==
    /\ InitCommon
    /\ now = 0
    /\ poolLabel \in {f \in [AllClaims -> PoolLabels] : f["c2"] = NodePoolName}
    /\ launched = [c \in AllClaims |-> nil]
    /\ registered = [c \in AllClaims |-> nil]

\* Two claims of the same NodePool, both launched or failed to launch, whose
\* Registered condition was initialised registrationTimeout ago.
InitConc ==
    /\ InitCommon
    /\ now = registrationTimeout
    /\ poolLabel = [c \in AllClaims |-> NodePoolName]
    /\ launched \in [AllClaims -> {NewCondition("True", 0), NewCondition("False", 0)}]
    /\ registered = [c \in AllClaims |-> NewCondition("Unknown", 0)]

\* ------------------------------------------------- the store (kubeClient)
\* The errors kubeClient.Delete can return for claim c.
DeleteErrs(c) == (IF exists[c] THEN {"nil"} ELSE {"NotFound"}) \cup {"Internal"}

\* The errors kubeClient.Get can return for the NodePool.
GetErrs == (IF nodePool.exists THEN {"nil"} ELSE {"NotFound"}) \cup {"Internal"}

\* Variant: a plain merge patch, which carries no resourceVersion.
PatchErrsNoLock(rv) ==
    (IF ~nodePool.exists THEN {"NotFound"} ELSE {"nil"}) \cup {"Internal"}

\* The errors kubeClient.Status().Patch with MergeFromWithOptimisticLock
\* can return when the patch carries resourceVersion rv.
PatchErrs(rv) ==
    (IF ~nodePool.exists THEN {"NotFound"}
     ELSE IF nodePool.resourceVersion # rv THEN {"Conflict"}
     ELSE {"nil"}) \cup {"Internal"}

\* ------------------------------------------------------------- Reconcile
Return(c, res) ==
    /\ pc' = [pc EXCEPT ![c] = "returned"]
    /\ result' = [result EXCEPT ![c] = res]

Goto(c, label) ==
    /\ pc' = [pc EXCEPT ![c] = label]
    /\ UNCHANGED result

\* Variant: a claim without NodePool label returns before the delete.
RegistrationCheckNoLabelReturns(c) ==
    IF registered[c] = nil
    THEN Return(c, Result(TRUE, 0, "nil"))
    ELSE IF registrationTimeout - Since(registered[c].ltt) > 0
    THEN Return(c, Result(FALSE, registrationTimeout - Since(registered[c].ltt), "nil"))
    ELSE IF poolLabel[c] # ""
    THEN Goto(c, "GetPool")
    ELSE Return(c, Result(FALSE, 0, "nil"))

\* Variant: with Registered absent the registration timer runs from the
\* Launched condition's transition.
RegistrationCheckFromLaunch(c) ==
    LET since == IF registered[c] = nil THEN launched[c].ltt ELSE registered[c].ltt
    IN  IF registrationTimeout - Since(since) > 0
        THEN IF registered[c] = nil
             THEN Return(c, Result(TRUE, 0, "nil"))
             ELSE Return(c, Result(FALSE, registrationTimeout - Since(since), "nil"))
        ELSE IF poolLabel[c] # ""
        THEN Goto(c, "GetPool")
        ELSE Goto(c, "Delete")

\* liveness.go lines 91-99 and 118-119: the registration check, up to the
\* first call to the store.
RegistrationCheck(c) ==
    IF registered[c] = nil
    THEN Return(c, Result(TRUE, 0, "nil"))
    ELSE IF registrationTimeout - Since(registered[c].ltt) > 0
    THEN Return(c, Result(FALSE, registrationTimeout - Since(registered[c].ltt), "nil"))
    ELSE IF poolLabel[c] # ""
    THEN Goto(c, "GetPool")
    ELSE Goto(c, "Delete")

\* Variant: the requeue is asked after the whole launchTimeout, not after
\* what is left of it.
LaunchCheckFullTimeout(c) ==
    IF launched[c] = nil
    THEN Return(c, Result(TRUE, 0, "nil"))
    ELSE IF ~IsTrue(launched[c])
    THEN IF launchTimeout - Since(launched[c].ltt) > 0
         THEN Return(c, Result(FALSE, launchTimeout, "nil"))
         ELSE Goto(c, "LaunchDelete")
    ELSE RegistrationCheck(c)

\* Variant: an absent Launched condition ends the invocation without a
\* requeue.
LaunchCheckAbsentIsDone(c) ==
    IF launched[c] = nil
    THEN Return(c, Result(FALSE, 0, "nil"))
    ELSE IF ~IsTrue(launched[c])
    THEN IF launchTimeout - Since(launched[c].ltt) > 0
         THEN Return(c, Result(FALSE, launchTimeout - Since(launched[c].ltt), "nil"))
         ELSE Goto(c, "LaunchDelete")
    ELSE RegistrationCheck(c)

\* liveness.go lines 75-84: the launch check, up to the first store call.
LaunchCheck(c) ==
    IF launched[c] = nil
    THEN Return(c, Result(TRUE, 0, "nil"))
    ELSE IF ~IsTrue(launched[c])
    THEN IF launchTimeout - Since(launched[c].ltt) > 0
         THEN Return(c, Result(FALSE, launchTimeout - Since(launched[c].ltt), "nil"))
         ELSE Goto(c, "LaunchDelete")
    ELSE RegistrationCheck(c)

\* Variant: the launch check runs before Registered is looked at.
StartLaunchFirst(c) ==
    /\ pc[c] = "idle"
    /\ calls' = [calls EXCEPT ![c] = <<>>]
    /\ startedAt' = [startedAt EXCEPT ![c] = now]
    /\ IF launched[c] # nil /\ IsTrue(registered[c])
       THEN Return(c, Result(FALSE, 0, "nil"))
       ELSE LaunchCheck(c)
    /\ UNCHANGED <<now, claimVars, nodePool, stored, NodeClaimsDisruptedTotal>>

\* liveness.go lines 70-84: entry of Reconcile up to the first store call.
Start(c) ==
    /\ pc[c] = "idle"
    /\ calls' = [calls EXCEPT ![c] = <<>>]
    /\ startedAt' = [startedAt EXCEPT ![c] = now]
    /\ IF IsTrue(registered[c])
       THEN Return(c, Result(FALSE, 0, "nil"))
       ELSE LaunchCheck(c)
    /\ UNCHANGED <<now, claimVars, nodePool, stored, NodeClaimsDisruptedTotal>>

\* Variant: the counter is incremented before the delete's error is looked
\* at.
deleteNodeClaimForTimeoutCountsFirst(c, timeout, err) ==
    /\ calls' = [calls EXCEPT ![c] =
                   Append(Append(@, Call("Delete", timeout.reason, "", err)),
                          Call("Inc", timeout.reason, "", "nil"))]
    /\ exists' = IF err = "nil" THEN [exists EXCEPT ![c] = FALSE] ELSE exists
    /\ NodeClaimsDisruptedTotal' =
          [NodeClaimsDisruptedTotal EXCEPT ![MetricKey(timeout.reason, c)] = @ + 1]

\* deleteNodeClaimForTimeout, lines 144-155, with the store answering err.
deleteNodeClaimForTimeout(c, timeout, err) ==
    /\ calls' = [calls EXCEPT ![c] =
                   IF err = "nil"
                   THEN Append(Append(@, Call("Delete", timeout.reason, "", err)),
                               Call("Inc", timeout.reason, "", "nil"))
                   ELSE Append(@, Call("Delete", timeout.reason, "", err))]
    /\ exists' = IF err = "nil" THEN [exists EXCEPT ![c] = FALSE] ELSE exists
    /\ NodeClaimsDisruptedTotal' =
          IF err = "nil"
          THEN [NodeClaimsDisruptedTotal EXCEPT ![MetricKey(timeout.reason, c)] = @ + 1]
          ELSE NodeClaimsDisruptedTotal

\* liveness.go lines 84-98: the launch-timeout delete and what follows it.
LaunchDelete(c) ==
    /\ pc[c] = "LaunchDelete"
    /\ \E err \in DeleteErrs(c) :
          /\ deleteNodeClaimForTimeout(c, LaunchTimeout, err)
          /\ IF err # "nil"
             THEN IF IgnoreNotFound(err) # "nil"
                  THEN Return(c, Result(FALSE, 0, err))
                  ELSE Return(c, Result(FALSE, 0, "nil"))
             ELSE RegistrationCheck(c)
    /\ UNCHANGED <<now, poolLabel, launched, registered, nodePool, stored, startedAt>>

\* updateNodePoolRegistrationHealth lines 120-125 and Reconcile lines
\* 99-104: the read of the NodePool.
GetPool(c) ==
    /\ pc[c] = "GetPool"
    /\ \E err \in GetErrs :
          /\ calls' = [calls EXCEPT ![c] = Append(@,
                        Call("Get", poolLabel[c],
                             IF err = "nil" THEN nodePool.status ELSE "", err))]
          /\ IF err # "nil"
             THEN /\ UNCHANGED stored
                  /\ IF IgnoreNotFound(err) # "nil"
                     THEN IF IsConflict(err)
                          THEN Return(c, Result(TRUE, 0, "nil"))
                          ELSE Return(c, Result(FALSE, 0, err))
                     ELSE Goto(c, "Delete")
             ELSE IF IsUnknown(nodePool)
                  THEN /\ stored' = [stored EXCEPT ![c] = nodePool.resourceVersion]
                       /\ Goto(c, "PatchPool")
                  ELSE /\ UNCHANGED stored
                       /\ Goto(c, "Delete")
    /\ UNCHANGED <<now, claimVars, nodePool, startedAt, NodeClaimsDisruptedTotal>>

\* Variant: the generic reason and message are written whatever Launched is.
RegistrationHealthGeneric(c) ==
    [reason |-> "RegistrationFailed", message |-> "Failed to register node"]

\* updateNodePoolRegistrationHealth lines 128-132: the condition written.
RegistrationHealth(c) ==
    IF IsTrue(launched[c])
    THEN [reason |-> "RegistrationFailed", message |-> "Failed to register node"]
    ELSE [reason |-> launched[c].reason, message |-> launched[c].message]

\* updateNodePoolRegistrationHealth lines 136-141 and Reconcile lines
\* 99-104: the conditional write of the NodePool's status.
PatchPool(c) ==
    /\ pc[c] = "PatchPool"
    /\ \E err \in PatchErrs(stored[c]) :
          /\ calls' = [calls EXCEPT ![c] = Append(@, Call("Patch", poolLabel[c], "False", err))]
          /\ nodePool' =
                IF err = "nil"
                THEN [nodePool EXCEPT !.status = "False",
                                      !.reason = RegistrationHealth(c).reason,
                                      !.message = RegistrationHealth(c).message,
                                      !.resourceVersion = @ + 1]
                ELSE nodePool
          /\ IF IgnoreNotFound(err) # "nil"
             THEN IF IsConflict(err)
                  THEN Return(c, Result(TRUE, 0, "nil"))
                  ELSE Return(c, Result(FALSE, 0, err))
             ELSE Goto(c, "Delete")
    /\ UNCHANGED <<now, claimVars, stored, startedAt, NodeClaimsDisruptedTotal>>

\* liveness.go lines 106-112: the registration-timeout delete.
Delete(c) ==
    /\ pc[c] = "Delete"
    /\ \E err \in DeleteErrs(c) :
          /\ deleteNodeClaimForTimeout(c, RegistrationTimeout, err)
          /\ IF err # "nil"
             THEN IF IgnoreNotFound(err) # "nil"
                  THEN Return(c, Result(FALSE, 0, err))
                  ELSE Return(c, Result(FALSE, 0, "nil"))
             ELSE Return(c, Result(FALSE, 0, "nil"))
    /\ UNCHANGED <<now, poolLabel, launched, registered, nodePool, stored, startedAt>>

\* The caller takes the result; the next invocation starts afresh.
Finish(c) ==
    /\ pc[c] = "returned"
    /\ pc' = [pc EXCEPT ![c] = "idle"]
    /\ result' = [result EXCEPT ![c] = NoResult]
    /\ calls' = [calls EXCEPT ![c] = <<>>]
    /\ stored' = [stored EXCEPT ![c] = 0]
    /\ startedAt' = [startedAt EXCEPT ![c] = 0]
    /\ UNCHANGED <<now, claimVars, nodePool, NodeClaimsDisruptedTotal>>

Reconcile(c) ==
    \/ Start(c)
    \/ LaunchDelete(c)
    \/ GetPool(c)
    \/ PatchPool(c)
    \/ Delete(c)
    \/ Finish(c)

\* ----------------------------------------------------------- environment
\* l.clock advances.
Tick ==
    /\ now + TickMinutes <= MaxTime
    /\ now' = now + TickMinutes
    /\ UNCHANGED <<claimVars, nodePool, pc, stored, startedAt, result, calls,
                   NodeClaimsDisruptedTotal>>

\* The launch controller writes the Launched condition of a claim.
SetLaunched(c) ==
    /\ pc[c] = "idle"
    /\ exists[c]
    /\ \E s \in {"True", "False", "Unknown"} :
          /\ launched[c].status # s
          /\ launched' = [launched EXCEPT ![c] = NewCondition(s, now)]
    /\ UNCHANGED <<now, exists, poolLabel, registered, nodePool, pc, stored, startedAt,
                   result, calls, NodeClaimsDisruptedTotal>>

\* The registration controller writes the Registered condition of a claim.
SetRegistered(c) ==
    /\ pc[c] = "idle"
    /\ exists[c]
    /\ \E s \in {"True", "False", "Unknown"} :
          /\ registered[c].status # s
          /\ registered' = [registered EXCEPT ![c] = NewCondition(s, now)]
    /\ UNCHANGED <<now, exists, poolLabel, launched, nodePool, pc, stored, startedAt,
                   result, calls, NodeClaimsDisruptedTotal>>

\* Another writer (the NodePool's own controllers) sets the NodePool's
\* NodeRegistrationHealthy condition.
ExternalPoolWrite ==
    /\ nodePool.exists
    /\ nodePool.resourceVersion < MaxResourceVersion
    /\ \E s \in {"Unknown", "True", "False"} :
          /\ nodePool.status # s
          /\ nodePool' = [nodePool EXCEPT !.status = s, !.reason = "External",
                                          !.message = "",
                                          !.resourceVersion = @ + 1]
    /\ UNCHANGED <<now, claimVars, pc, stored, startedAt, result, calls,
                   NodeClaimsDisruptedTotal>>

\* The NodePool is deleted.
ExternalPoolDelete ==
    /\ nodePool.exists
    /\ nodePool' = [nodePool EXCEPT !.exists = FALSE]
    /\ UNCHANGED <<now, claimVars, pc, stored, startedAt, result, calls,
                   NodeClaimsDisruptedTotal>>

Environment == Tick \/ ExternalPoolWrite \/ ExternalPoolDelete

Next ==
    \/ \E c \in Claims : Reconcile(c)
    \/ \E c \in Claims : SetLaunched(c)
    \/ \E c \in Claims : SetRegistered(c)
    \/ Environment

Spec == Init /\ [][Next]_vars

\* Two reconciles of claims of one NodePool and the other writers of the
\* NodePool, interleaved at the calls to the store.
NextConc ==
    \/ \E c \in ConcClaims : Reconcile(c)
    \/ Environment

SpecConc == InitConc /\ [][NextConc]_vars

\* One claim reconciled again and again with no other writer of the
\* NodePool's condition.
NextSeq ==
    \/ \E c \in Claims : Reconcile(c)
    \/ \E c \in Claims : SetLaunched(c)
    \/ \E c \in Claims : SetRegistered(c)
    \/ Tick
    \/ ExternalPoolDelete

SpecSeq == Init /\ [][NextSeq]_vars

\* One claim whose conditions were written at time 0 and stay as they are,
\* watched minute by minute.
InitMinute ==
    /\ InitCommon
    /\ now = 0
    /\ poolLabel \in {f \in [AllClaims -> PoolLabels] : f["c2"] = NodePoolName}
    /\ \E l \in {"True", "False", "Unknown"} :
          launched = [c \in AllClaims |-> IF c \in Claims THEN NewCondition(l, 0) ELSE nil]
    /\ \E r \in {"Absent", "False", "Unknown"} :
          registered = [c \in AllClaims |->
                          IF c \in Claims /\ r # "Absent" THEN NewCondition(r, 0) ELSE nil]

\* l.clock advances by a minute.
TickMinute ==
    /\ now + MinuteStep <= MaxTime
    /\ now' = now + MinuteStep
    /\ UNCHANGED <<claimVars, nodePool, pc, stored, startedAt, result, calls,
                   NodeClaimsDisruptedTotal>>

NextMinute ==
    \/ \E c \in Claims : Reconcile(c)
    \/ TickMinute

SpecMinute == InitMinute /\ [][NextMinute]_vars

\* One claim whose conditions stay as they are, reconciled by a scheduler
\* that re-invokes Reconcile after every return, with a clock that keeps
\* advancing and a store whose errors do not persist.
InitLive ==
    /\ InitCommon
    /\ now = 0
    /\ poolLabel \in {f \in [AllClaims -> PoolLabels] : f["c2"] = NodePoolName}
    /\ \E l \in {"Absent", "True", "False", "Unknown"} :
          launched = [c \in AllClaims |->
                        IF c \in Claims /\ l # "Absent" THEN NewCondition(l, 0) ELSE nil]
    /\ \E r \in {"Absent", "True", "False", "Unknown"} :
          registered = [c \in AllClaims |->
                          IF c \in Claims /\ r # "Absent" THEN NewCondition(r, 0) ELSE nil]

NextLive ==
    \/ \E c \in Claims : Reconcile(c)
    \/ Tick
    \/ ExternalPoolWrite

\* The store answered the call just made (with success, not-found or
\* conflict) instead of failing.
StoreAnswers(c) == calls'[c] # <<>> /\ calls'[c][Len(calls'[c])].err # "Internal"

Fairness ==
    /\ WF_vars(Tick)
    /\ \A c \in Claims :
          /\ WF_vars(Start(c))
          /\ WF_vars(Finish(c))
          /\ SF_vars(LaunchDelete(c) /\ StoreAnswers(c))
          /\ SF_vars(GetPool(c) /\ StoreAnswers(c))
          /\ SF_vars(PatchPool(c) /\ StoreAnswers(c))
          /\ SF_vars(Delete(c) /\ StoreAnswers(c))

SpecLive == InitLive /\ [][NextLive]_vars /\ Fairness

TypeOK ==
    /\ now \in 0..MaxTime
    /\ pc \in [AllClaims -> {"idle", "LaunchDelete", "GetPool", "PatchPool", "Delete", "returned"}]
    /\ nodePool.status \in {"Unknown", "True", "False"}

\* ------------------------------------------------------------ properties
done == Result(FALSE, 0, "nil")

requeueImmediately == Result(TRUE, 0, "nil")

Returned(c) == pc[c] = "returned"

\* The positions in the invocation's log of the calls of operation op.
CallsOf(c, op) == {i \in 1..Len(calls[c]) : calls[c][i].op = op}

\* No call of the invocation was answered with an error other than
\* not-found or conflict.
NoStoreError(c) == \A i \in 1..Len(calls[c]) : calls[c][i].err # "Internal"

\* Every call of the invocation succeeded.
NoStoreFailure(c) == \A i \in 1..Len(calls[c]) : calls[c][i].err = "nil"

\* When the invocation began: Launched present, not True, launchTimeout
\* elapsed (and Registered not True, so that the launch check is reached).
LaunchTimedOut(c) ==
    /\ ~IsTrue(registered[c])
    /\ launched[c] # nil
    /\ ~IsTrue(launched[c])
    /\ startedAt[c] - launched[c].ltt >= launchTimeout

\* When the invocation began: Launched True, Registered present, not True,
\* registrationTimeout elapsed.
RegistrationTimedOut(c) ==
    /\ IsTrue(launched[c])
    /\ registered[c] # nil
    /\ ~IsTrue(registered[c])
    /\ startedAt[c] - registered[c].ltt >= registrationTimeout

\* C1: an invocation on a claim whose Launched condition is present, not
\* True and older than launchTimeout calls delete exactly once, tagged
\* launch_timeout, and does not write the NodePool.
C1_LaunchTimeoutDeletesOnce ==
    \A c \in AllClaims :
        (Returned(c) /\ LaunchTimedOut(c) /\ NoStoreError(c)) =>
            /\ Cardinality(CallsOf(c, "Delete")) = 1
            /\ \A i \in CallsOf(c, "Delete") : calls[c][i].arg = launchTimeoutReason
            /\ CallsOf(c, "Patch") = {}

\* C2: an invocation whose conditional write of the NodePool reported a
\* conflict returns requeue-immediately and has not called delete on the
\* claim.
C2_ConflictRequeuesWithoutDelete ==
    \A c \in AllClaims :
        (Returned(c) /\ \E i \in CallsOf(c, "Patch") : calls[c][i].err = "Conflict") =>
            /\ result[c] = requeueImmediately
            /\ CallsOf(c, "Delete") = {}

\* C3: on the launch-timeout path the invocation ends with the delete: done
\* and nothing further if the delete succeeded or reported not-found, the
\* delete's error otherwise.
C3_LaunchTimeoutEndsAfterDelete ==
    \A c \in AllClaims :
        (Returned(c) /\ LaunchTimedOut(c)) =>
            /\ Len(calls[c]) >= 1
            /\ calls[c][1].op = "Delete"
            /\ calls[c][1].err = "nil" =>
                  /\ result[c] = done
                  /\ calls[c] = <<Call("Delete", launchTimeoutReason, "", "nil"),
                                  Call("Inc", launchTimeoutReason, "", "nil")>>
            /\ calls[c][1].err = "NotFound" =>
                  /\ result[c] = done
                  /\ calls[c] = <<Call("Delete", launchTimeoutReason, "", "NotFound")>>
            /\ calls[c][1].err \notin {"nil", "NotFound"} =>
                  result[c] = Result(FALSE, 0, calls[c][1].err)

\* C4: Launched True, Registered present, not True and older than
\* registrationTimeout, the NodePool read as Unknown, no call failing: the
\* invocation is exactly read, one conditional write setting the condition
\* False, then the delete tagged registration_timeout, and returns done.
C4_RegistrationTimeoutPropagatesThenDeletes ==
    \A c \in AllClaims :
        (/\ Returned(c)
         /\ RegistrationTimedOut(c)
         /\ poolLabel[c] # ""
         /\ NoStoreFailure(c)
         /\ \E i \in CallsOf(c, "Get") : calls[c][i].val = "Unknown") =>
            /\ calls[c] = <<Call("Get", poolLabel[c], "Unknown", "nil"),
                            Call("Patch", poolLabel[c], "False", "nil"),
                            Call("Delete", registrationTimeoutReason, "", "nil"),
                            Call("Inc", registrationTimeoutReason, "", "nil")>>
            /\ result[c] = done
            /\ ~exists[c]
            /\ nodePool.resourceVersion = stored[c] + 1 =>
                  /\ nodePool.status = "False"
                  /\ nodePool.reason = "RegistrationFailed"

C4_Witness ==
    \E c \in AllClaims :
        /\ Returned(c)
        /\ RegistrationTimedOut(c)
        /\ Len(calls[c]) = 4
        /\ calls[c][2] = Call("Patch", poolLabel[c], "False", "nil")
        /\ calls[c][3] = Call("Delete", registrationTimeoutReason, "", "nil")
        /\ nodePool.status = "False"
        /\ nodePool.resourceVersion = stored[c] + 1

\* C5: every step of a reconcile that changes the NodePool changes its
\* condition from Unknown to False, and changes the very version that the
\* reconcile read; every other change of the NodePool is another writer's.
C5_OnlyUnknownToFalse ==
    [][\A c \in AllClaims :
          (pc'[c] # pc[c] /\ nodePool' # nodePool) =>
              /\ nodePool.status = "Unknown"
              /\ nodePool'.status = "False"
              /\ nodePool.resourceVersion = stored[c]
              /\ nodePool.exists /\ nodePool'.exists]_vars

C5_Witness ==
    \E c \in AllClaims :
        /\ \E i \in CallsOf(c, "Patch") : calls[c][i].err = "nil"
        /\ nodePool.status = "False"
        /\ nodePool.reason # "External"
        /\ nodePool.resourceVersion = stored[c] + 1

\* C6: a conditional write against a NodePool that changed since the
\* reconcile read it leaves the NodePool as it is and is answered with a
\* conflict; the reconcile then returns requeue-immediately at once.  A
\* write changes the NodePool only if the NodePool is unchanged since the
\* read.
C6_ConflictInsteadOfLostUpdate ==
    [][\A c \in AllClaims :
          (pc[c] = "PatchPool" /\ pc'[c] # "PatchPool") =>
              LET last == calls'[c][Len(calls'[c])]
              IN  /\ Len(calls'[c]) = Len(calls[c]) + 1
                  /\ last.op = "Patch"
                  /\ (nodePool.exists /\ nodePool.resourceVersion # stored[c]) =>
                        /\ nodePool' = nodePool
                        /\ last.err \in {"Conflict", "Internal"}
                        /\ last.err = "Conflict" =>
                              /\ pc'[c] = "returned"
                              /\ result'[c] = requeueImmediately
                  /\ nodePool' # nodePool =>
                        /\ nodePool.resourceVersion = stored[c]
                        /\ last.err = "nil"]_vars

C6_Witness ==
    \E c, d \in AllClaims :
        /\ c # d
        /\ Returned(c)
        /\ result[c] = requeueImmediately
        /\ calls[c][Len(calls[c])] = Call("Patch", poolLabel[c], "False", "Conflict")
        /\ \E i \in CallsOf(d, "Patch") : calls[d][i].err = "nil"
        /\ stored[d] = stored[c]
        /\ nodePool.resourceVersion = stored[c] + 1

\* C7: on the registration-timeout path, a claim without NodePool label
\* causes no read and no write of the NodePool, a NodePool read as True or
\* False causes no write, and in both cases the delete tagged
\* registration_timeout is still called.
C7_SkippedPropagationStillDeletes ==
    \A c \in AllClaims :
        (Returned(c) /\ RegistrationTimedOut(c)) =>
            /\ poolLabel[c] = "" =>
                  /\ CallsOf(c, "Get") = {}
                  /\ CallsOf(c, "Patch") = {}
                  /\ \E d \in CallsOf(c, "Delete") :
                        /\ calls[c][d].arg = registrationTimeoutReason
                        /\ calls[c][d].err = "nil" => ~exists[c]
            /\ \A i \in CallsOf(c, "Get") :
                  calls[c][i].val \in {"True", "False"} =>
                      /\ CallsOf(c, "Patch") = {}
                      /\ \E d \in CallsOf(c, "Delete") :
                            /\ d > i
                            /\ calls[c][d].arg = registrationTimeoutReason
                            /\ calls[c][d].err = "nil" => ~exists[c]

C7_Witness ==
    \E c \in AllClaims :
        /\ Returned(c)
        /\ RegistrationTimedOut(c)
        /\ calls[c] = <<Call("Get", poolLabel[c], "True", "nil"),
                        Call("Delete", registrationTimeoutReason, "", "nil"),
                        Call("Inc", registrationTimeoutReason, "", "nil")>>
        /\ nodePool.status = "True"

\* The claim was gone from the store when the invocation began.
GoneAtStart(c) ==
    /\ ~exists[c]
    /\ \A i \in CallsOf(c, "Delete") : calls[c][i].err # "nil"

\* C8: an invocation on the snapshot of a timed-out claim that an earlier
\* invocation deleted, with no other writer of the NodePool in between and
\* no store error, gets not-found from its delete, returns done with no
\* error and does not write the NodePool.
C8_SecondReconcileIsDone ==
    \A c \in AllClaims :
        (/\ Returned(c)
         /\ GoneAtStart(c)
         /\ LaunchTimedOut(c) \/ RegistrationTimedOut(c)
         /\ NoStoreError(c)) =>
            /\ result[c] = done
            /\ CallsOf(c, "Patch") = {}
            /\ CallsOf(c, "Inc") = {}
            /\ \E d \in CallsOf(c, "Delete") : calls[c][d].err = "NotFound"

C8_Witness ==
    \E c \in AllClaims :
        /\ Returned(c)
        /\ GoneAtStart(c)
        /\ RegistrationTimedOut(c)
        /\ result[c] = done
        /\ calls[c] = <<Call("Get", poolLabel[c], "False", "nil"),
                        Call("Delete", registrationTimeoutReason, "", "NotFound")>>
        /\ nodePool.reason = "RegistrationFailed"

\* C9: Launched True and Registered absent: requeue-immediately and no call
\* to the store, however old the Launched condition is.
C9_RegisteredAbsentRequeues ==
    \A c \in AllClaims :
        (Returned(c) /\ IsTrue(launched[c]) /\ registered[c] = nil) =>
            /\ result[c] = requeueImmediately
            /\ calls[c] = <<>>
            /\ exists[c]

C9_Witness ==
    \E c \in AllClaims :
        /\ Returned(c)
        /\ IsTrue(launched[c])
        /\ registered[c] = nil
        /\ startedAt[c] - launched[c].ltt >= 20
        /\ result[c] = requeueImmediately

\* C10: Registered True: done and no call to the store, whatever Launched
\* is and whatever the clock reads.
C10_RegisteredIsDone ==
    \A c \in AllClaims :
        (Returned(c) /\ IsTrue(registered[c])) =>
            /\ result[c] = done
            /\ calls[c] = <<>>
            /\ exists[c]

C10_Witness ==
    \E c \in AllClaims :
        /\ Returned(c)
        /\ IsTrue(registered[c])
        /\ launched[c] = nil
        /\ startedAt[c] - registered[c].ltt >= registrationTimeout
        /\ result[c] = done

\* C11: while the timer of the stage the claim is in has not elapsed, the
\* invocation returns requeue-after with what is left of the timeout
\* (launchTimeout or registrationTimeout minus the time elapsed since the
\* condition's last transition), which is positive, and calls nothing.
C11_WaitsForRemainingTime ==
    \A c \in AllClaims :
        Returned(c) =>
            /\ (/\ ~IsTrue(registered[c])
                /\ launched[c] # nil
                /\ ~IsTrue(launched[c])
                /\ startedAt[c] - launched[c].ltt < launchTimeout) =>
                  /\ result[c] = Result(FALSE, launchTimeout - (startedAt[c] - launched[c].ltt), "nil")
                  /\ result[c].RequeueAfter > 0
                  /\ calls[c] = <<>>
            /\ (/\ IsTrue(launched[c])
                /\ registered[c] # nil
                /\ ~IsTrue(registered[c])
                /\ startedAt[c] - registered[c].ltt < registrationTimeout) =>
                  /\ result[c] = Result(FALSE, registrationTimeout - (startedAt[c] - registered[c].ltt), "nil")
                  /\ result[c].RequeueAfter > 0
                  /\ calls[c] = <<>>

C11_Witness ==
    \E c \in AllClaims :
        /\ Returned(c)
        /\ launched[c] # nil
        /\ ~IsTrue(launched[c])
        /\ startedAt[c] - launched[c].ltt = 3
        /\ result[c] = Result(FALSE, 2, "nil")
        /\ calls[c] = <<>>

\* C12 as stated: Launched absent gives requeue-immediately and no call to
\* the store, whatever Registered is.
C12_LaunchedAbsentRequeues ==
    \A c \in AllClaims :
        (Returned(c) /\ launched[c] = nil) =>
            /\ result[c] = requeueImmediately
            /\ calls[c] = <<>>

\* C12 as amended: Launched absent and Registered not True (absent, False or
\* Unknown) gives requeue-immediately and no call to the store; Launched
\* absent and Registered True gives done and no call to the store.
C12_LaunchedAbsentRequeuesUnlessRegistered ==
    \A c \in AllClaims :
        (Returned(c) /\ launched[c] = nil) =>
            /\ calls[c] = <<>>
            /\ exists[c]
            /\ result[c] = IF IsTrue(registered[c]) THEN done ELSE requeueImmediately

C12_Witness ==
    \E c \in AllClaims :
        /\ Returned(c)
        /\ launched[c] = nil
        /\ registered[c] # nil
        /\ ~IsTrue(registered[c])
        /\ startedAt[c] - registered[c].ltt >= registrationTimeout
        /\ result[c] = requeueImmediately

\* C13: a not-found answer to the read or to the conditional write of the
\* NodePool is followed at once by the delete tagged registration_timeout,
\* and an invocation that met a not-found answer (from the NodePool or from
\* the delete) and no other error returns done.
C13_NotFoundIsBenign ==
    \A c \in AllClaims :
        Returned(c) =>
            /\ \A i \in CallsOf(c, "Get") \cup CallsOf(c, "Patch") :
                  calls[c][i].err = "NotFound" =>
                      /\ i < Len(calls[c])
                      /\ calls[c][i + 1].op = "Delete"
                      /\ calls[c][i + 1].arg = registrationTimeoutReason
            /\ (/\ NoStoreError(c)
                /\ \E i \in 1..Len(calls[c]) : calls[c][i].err = "NotFound") =>
                  result[c] = done

C13_Witness ==
    \E c \in AllClaims :
        /\ Returned(c)
        /\ calls[c] = <<Call("Get", poolLabel[c], "Unknown", "nil"),
                        Call("Patch", poolLabel[c], "False", "NotFound"),
                        Call("Delete", registrationTimeoutReason, "", "nil"),
                        Call("Inc", registrationTimeoutReason, "", "nil")>>
        /\ result[c] = done
        /\ ~nodePool.exists
        /\ ~exists[c]

\* C14: an invocation that met a store error other than not-found and
\* conflict returns that error with no requeue, and the failed call is its
\* last; if the failed call was the read or the write of the NodePool the
\* invocation called no delete, and if it was the delete the invocation
\* incremented no counter.
C14_OtherErrorsAreReturned ==
    \A c \in AllClaims :
        \A i \in 1..Len(calls[c]) :
            (Returned(c) /\ calls[c][i].err = "Internal") =>
                /\ result[c] = Result(FALSE, 0, "Internal")
                /\ i = Len(calls[c])
                /\ calls[c][i].op \in {"Get", "Patch"} => CallsOf(c, "Delete") = {}
                /\ calls[c][i].op = "Delete" => CallsOf(c, "Inc") = {}

\* The increments of the counter that carry the labels of claim c.
Disrupted(c, reason) == NodeClaimsDisruptedTotal[MetricKey(reason, c)]

C16_ReasonAndMessage ==
    [][\A c \in AllClaims :
          (pc'[c] # pc[c] /\ nodePool'.status = "False" /\ nodePool' # nodePool) =>
              IF launched[c] # nil /\ launched[c].status = "True"
              THEN /\ nodePool'.reason = "RegistrationFailed"
                   /\ nodePool'.message = "Failed to register node"
              ELSE /\ nodePool'.reason = launched[c].reason
                   /\ nodePool'.message = launched[c].message]_vars

C16_Witness ==
    \E c \in AllClaims :
        /\ Returned(c)
        /\ \E i \in CallsOf(c, "Patch") : calls[c][i].err = "nil"
        /\ nodePool.resourceVersion = stored[c] + 1
        /\ launched[c].status = "False"
        /\ nodePool.status = "False"
        /\ nodePool.reason = "LaunchFailed"
        /\ nodePool.message = "creating instance failed"

\* C17: an invocation makes at most one read of the NodePool, at most one
\* conditional write of it, at most one delete call and at most one
\* increment of the counter.
C17_SingleBoundedPass ==
    \A c \in AllClaims :
        \A op \in {"Get", "Patch", "Delete", "Inc"} :
            Cardinality(CallsOf(c, op)) <= 1

\* C19: a delete tagged launch_timeout is called only for a claim whose
\* Launched condition is present, not True and older than launchTimeout; a
\* delete tagged registration_timeout, a read and a write of the NodePool
\* only for a claim whose Launched condition is True and whose Registered
\* condition is present, not True and older than registrationTimeout.
C19_NoDeleteOnTheWrongPath ==
    \A c \in AllClaims :
        \A i \in 1..Len(calls[c]) :
            /\ (calls[c][i].op = "Delete" /\ calls[c][i].arg = launchTimeoutReason) =>
                  LaunchTimedOut(c)
            /\ (\/ calls[c][i].op \in {"Get", "Patch"}
                \/ calls[c][i].op = "Delete" /\ calls[c][i].arg = registrationTimeoutReason) =>
                  RegistrationTimedOut(c)

\* C18: with no other writer of the NodePool's condition, an invocation
\* whose write of the NodePool succeeded and whose delete then failed
\* returns the error and leaves the claim in the store; a later invocation
\* that reads the condition as False writes nothing and calls the delete;
\* and over all invocations the NodePool is written at most once.
C18_RecoveryByReinvocation ==
    /\ nodePool.resourceVersion <= 2
    /\ \A c \in AllClaims :
          (Returned(c) /\ RegistrationTimedOut(c)) =>
              /\ calls[c] = <<Call("Get", poolLabel[c], "Unknown", "nil"),
                              Call("Patch", poolLabel[c], "False", "nil"),
                              Call("Delete", registrationTimeoutReason, "", "Internal")>> =>
                    /\ result[c] = Result(FALSE, 0, "Internal")
                    /\ exists[c]
                    /\ nodePool.status = "False"
              /\ \A i \in CallsOf(c, "Get") :
                    calls[c][i].val = "False" =>
                        /\ CallsOf(c, "Patch") = {}
                        /\ \E d \in CallsOf(c, "Delete") :
                              /\ d = i + 1
                              /\ calls[c][d].arg = registrationTimeoutReason
                              /\ calls[c][d].err = "nil" => (~exists[c] /\ result[c] = done)

C18_Witness ==
    \E c \in AllClaims :
        /\ Returned(c)
        /\ RegistrationTimedOut(c)
        /\ calls[c] = <<Call("Get", poolLabel[c], "False", "nil"),
                        Call("Delete", registrationTimeoutReason, "", "nil"),
                        Call("Inc", registrationTimeoutReason, "", "nil")>>
        /\ nodePool.reason = "RegistrationFailed"
        /\ nodePool.resourceVersion = 2
        /\ ~exists[c]

\* The claim is stuck in a stage: Launched present and not True, or Launched
\* True and Registered present and not True.
Stalled(c) ==
    /\ ~IsTrue(registered[c])
    /\ launched[c] # nil
    /\ ~IsTrue(launched[c]) \/ registered[c] # nil

\* The condition the next check needs has not been written.
NeededAbsent(c) ==
    /\ ~IsTrue(registered[c])
    /\ launched[c] = nil \/ (IsTrue(launched[c]) /\ registered[c] = nil)

\* C20: a claim that stays stalled is eventually deleted; a claim whose
\* needed condition stays absent is never deleted and every one of its
\* invocations, of which there are always more, returns requeue-immediately.
C20_StalledClaimIsEventuallyDeleted ==
    \A c \in Claims :
        /\ Stalled(c) ~> ~exists[c]
        /\ [](NeededAbsent(c) =>
                 /\ exists[c]
                 /\ Returned(c) => (result[c] = requeueImmediately /\ calls[c] = <<>>))
        /\ NeededAbsent(c) ~> Returned(c)

C20_Witness ==
    \E c \in Claims :
        /\ Stalled(c)
        /\ IsTrue(launched[c])
        /\ ~exists[c]
        /\ Disrupted(c, registrationTimeoutReason) = 1
        /\ nodePool.resourceVersion = MaxResourceVersion
====
